---- MODULE Spec2Model ----
(***************************************************************************)
(* Flow API: the iCal feed parser (parse_ical) and the replace-all sync    *)
(* reconciler (sync_calendars) of src/main.py.                             *)
(*                                                                         *)
(* A Python str is a sequence of one-character strings, so that strip,     *)
(* startswith, split, endswith, len and strptime are computed character by *)
(* character as the code computes them.                                    *)
(*                                                                         *)
(* Spec is the service: registrations and sync calls arrive at any time    *)
(* and are served on two worker threads, one step per database or network  *)
(* operation, so that two requests may interleave; a download returns any  *)
(* of the documents FeedDocs or fails. ParseSpec is one run of parse_ical  *)
(* on a document drawn from Docs, one step per iteration of its block      *)
(* loop.                                                                   *)
(***************************************************************************)
EXTENDS Integers, Sequences, FiniteSets, TLC

VARIABLES
    text,            \* parse_ical: resp.text of the run being stepped
    ppc,             \* parse_ical: position ("off", "unfold", "scan", "done")
    unfolded,        \* parse_ical: the logical lines
    pidx,            \* parse_ical: index of the next logical line of the block loop
    cur,             \* parse_ical: property map of the open block
    in_event,        \* parse_ical: inside BEGIN:VEVENT .. END:VEVENT
    events,          \* parse_ical: the events emitted so far
    calendarsource,  \* db["calendarsource"], in insertion order
    event,           \* db["event"], in insertion order
    req,             \* the /api/sync request of each slot: position, locals, response
    prev,            \* history: the last sync, if it ran alone and returned a summary and no request arrived since
    added,           \* the /api/sources request of each slot: position, response
    calls            \* the number of sync calls that have arrived

pvars == <<text, ppc, unfolded, pidx, cur, in_event, events>>
svars == <<calendarsource, event, req, prev, added, calls>>
vars == <<text, ppc, unfolded, pidx, cur, in_event, events,
          calendarsource, event, req, prev, added, calls>>

-----------------------------------------------------------------------------
(* Python values *)

\* None: no sequence of one-character strings equals it
None == <<"None">>

\* bool(v) of an Optional[str]
truthy(v) == v # None /\ v # <<>>

\* a or b
py_or(a, b) == IF truthy(a) THEN a ELSE b

\* A character that cannot be written in a string of this language is written
\* as its code point, "U+00A0"; it is one element of a str like any other.

\* the characters str.strip() removes: those for which str.isspace() holds
Whitespace ==
    {" ", "\t", "\n", "\r", "\f",
     "U+000B", "U+001C", "U+001D", "U+001E", "U+001F", "U+0085", "U+00A0",
     "U+1680", "U+2000", "U+2001", "U+2002", "U+2003", "U+2004", "U+2005",
     "U+2006", "U+2007", "U+2008", "U+2009", "U+200A", "U+2028", "U+2029",
     "U+202F", "U+205F", "U+3000"}

\* the characters at which str.splitlines() ends a line
LineBreak ==
    {"\n", "\r", "\f", "U+000B", "U+001C", "U+001D", "U+001E", "U+0085",
     "U+2028", "U+2029"}

\* [0-9], [1-9] and [0-5] of the strptime expressions
AsciiDigit == {"0", "1", "2", "3", "4", "5", "6", "7", "8", "9"}
Digit19 == AsciiDigit \ {"0"}
Digit05 == {"0", "1", "2", "3", "4", "5"}

\* the decimal digits beyond ASCII (Unicode category Nd), zero to nine of
\* each script
DigitRuns ==
    {
     <<"U+0660", "U+0661", "U+0662", "U+0663", "U+0664", "U+0665", "U+0666", "U+0667", "U+0668", "U+0669">>,
     <<"U+06F0", "U+06F1", "U+06F2", "U+06F3", "U+06F4", "U+06F5", "U+06F6", "U+06F7", "U+06F8", "U+06F9">>,
     <<"U+07C0", "U+07C1", "U+07C2", "U+07C3", "U+07C4", "U+07C5", "U+07C6", "U+07C7", "U+07C8", "U+07C9">>,
     <<"U+0966", "U+0967", "U+0968", "U+0969", "U+096A", "U+096B", "U+096C", "U+096D", "U+096E", "U+096F">>,
     <<"U+09E6", "U+09E7", "U+09E8", "U+09E9", "U+09EA", "U+09EB", "U+09EC", "U+09ED", "U+09EE", "U+09EF">>,
     <<"U+0A66", "U+0A67", "U+0A68", "U+0A69", "U+0A6A", "U+0A6B", "U+0A6C", "U+0A6D", "U+0A6E", "U+0A6F">>,
     <<"U+0AE6", "U+0AE7", "U+0AE8", "U+0AE9", "U+0AEA", "U+0AEB", "U+0AEC", "U+0AED", "U+0AEE", "U+0AEF">>,
     <<"U+0B66", "U+0B67", "U+0B68", "U+0B69", "U+0B6A", "U+0B6B", "U+0B6C", "U+0B6D", "U+0B6E", "U+0B6F">>,
     <<"U+0BE6", "U+0BE7", "U+0BE8", "U+0BE9", "U+0BEA", "U+0BEB", "U+0BEC", "U+0BED", "U+0BEE", "U+0BEF">>,
     <<"U+0C66", "U+0C67", "U+0C68", "U+0C69", "U+0C6A", "U+0C6B", "U+0C6C", "U+0C6D", "U+0C6E", "U+0C6F">>,
     <<"U+0CE6", "U+0CE7", "U+0CE8", "U+0CE9", "U+0CEA", "U+0CEB", "U+0CEC", "U+0CED", "U+0CEE", "U+0CEF">>,
     <<"U+0D66", "U+0D67", "U+0D68", "U+0D69", "U+0D6A", "U+0D6B", "U+0D6C", "U+0D6D", "U+0D6E", "U+0D6F">>,
     <<"U+0DE6", "U+0DE7", "U+0DE8", "U+0DE9", "U+0DEA", "U+0DEB", "U+0DEC", "U+0DED", "U+0DEE", "U+0DEF">>,
     <<"U+0E50", "U+0E51", "U+0E52", "U+0E53", "U+0E54", "U+0E55", "U+0E56", "U+0E57", "U+0E58", "U+0E59">>,
     <<"U+0ED0", "U+0ED1", "U+0ED2", "U+0ED3", "U+0ED4", "U+0ED5", "U+0ED6", "U+0ED7", "U+0ED8", "U+0ED9">>,
     <<"U+0F20", "U+0F21", "U+0F22", "U+0F23", "U+0F24", "U+0F25", "U+0F26", "U+0F27", "U+0F28", "U+0F29">>,
     <<"U+1040", "U+1041", "U+1042", "U+1043", "U+1044", "U+1045", "U+1046", "U+1047", "U+1048", "U+1049">>,
     <<"U+1090", "U+1091", "U+1092", "U+1093", "U+1094", "U+1095", "U+1096", "U+1097", "U+1098", "U+1099">>,
     <<"U+17E0", "U+17E1", "U+17E2", "U+17E3", "U+17E4", "U+17E5", "U+17E6", "U+17E7", "U+17E8", "U+17E9">>,
     <<"U+1810", "U+1811", "U+1812", "U+1813", "U+1814", "U+1815", "U+1816", "U+1817", "U+1818", "U+1819">>,
     <<"U+1946", "U+1947", "U+1948", "U+1949", "U+194A", "U+194B", "U+194C", "U+194D", "U+194E", "U+194F">>,
     <<"U+19D0", "U+19D1", "U+19D2", "U+19D3", "U+19D4", "U+19D5", "U+19D6", "U+19D7", "U+19D8", "U+19D9">>,
     <<"U+1A80", "U+1A81", "U+1A82", "U+1A83", "U+1A84", "U+1A85", "U+1A86", "U+1A87", "U+1A88", "U+1A89">>,
     <<"U+1A90", "U+1A91", "U+1A92", "U+1A93", "U+1A94", "U+1A95", "U+1A96", "U+1A97", "U+1A98", "U+1A99">>,
     <<"U+1B50", "U+1B51", "U+1B52", "U+1B53", "U+1B54", "U+1B55", "U+1B56", "U+1B57", "U+1B58", "U+1B59">>,
     <<"U+1BB0", "U+1BB1", "U+1BB2", "U+1BB3", "U+1BB4", "U+1BB5", "U+1BB6", "U+1BB7", "U+1BB8", "U+1BB9">>,
     <<"U+1C40", "U+1C41", "U+1C42", "U+1C43", "U+1C44", "U+1C45", "U+1C46", "U+1C47", "U+1C48", "U+1C49">>,
     <<"U+1C50", "U+1C51", "U+1C52", "U+1C53", "U+1C54", "U+1C55", "U+1C56", "U+1C57", "U+1C58", "U+1C59">>,
     <<"U+A620", "U+A621", "U+A622", "U+A623", "U+A624", "U+A625", "U+A626", "U+A627", "U+A628", "U+A629">>,
     <<"U+A8D0", "U+A8D1", "U+A8D2", "U+A8D3", "U+A8D4", "U+A8D5", "U+A8D6", "U+A8D7", "U+A8D8", "U+A8D9">>,
     <<"U+A900", "U+A901", "U+A902", "U+A903", "U+A904", "U+A905", "U+A906", "U+A907", "U+A908", "U+A909">>,
     <<"U+A9D0", "U+A9D1", "U+A9D2", "U+A9D3", "U+A9D4", "U+A9D5", "U+A9D6", "U+A9D7", "U+A9D8", "U+A9D9">>,
     <<"U+A9F0", "U+A9F1", "U+A9F2", "U+A9F3", "U+A9F4", "U+A9F5", "U+A9F6", "U+A9F7", "U+A9F8", "U+A9F9">>,
     <<"U+AA50", "U+AA51", "U+AA52", "U+AA53", "U+AA54", "U+AA55", "U+AA56", "U+AA57", "U+AA58", "U+AA59">>,
     <<"U+ABF0", "U+ABF1", "U+ABF2", "U+ABF3", "U+ABF4", "U+ABF5", "U+ABF6", "U+ABF7", "U+ABF8", "U+ABF9">>,
     <<"U+FF10", "U+FF11", "U+FF12", "U+FF13", "U+FF14", "U+FF15", "U+FF16", "U+FF17", "U+FF18", "U+FF19">>,
     <<"U+104A0", "U+104A1", "U+104A2", "U+104A3", "U+104A4", "U+104A5", "U+104A6", "U+104A7", "U+104A8", "U+104A9">>,
     <<"U+10D30", "U+10D31", "U+10D32", "U+10D33", "U+10D34", "U+10D35", "U+10D36", "U+10D37", "U+10D38", "U+10D39">>,
     <<"U+11066", "U+11067", "U+11068", "U+11069", "U+1106A", "U+1106B", "U+1106C", "U+1106D", "U+1106E", "U+1106F">>,
     <<"U+110F0", "U+110F1", "U+110F2", "U+110F3", "U+110F4", "U+110F5", "U+110F6", "U+110F7", "U+110F8", "U+110F9">>,
     <<"U+11136", "U+11137", "U+11138", "U+11139", "U+1113A", "U+1113B", "U+1113C", "U+1113D", "U+1113E", "U+1113F">>,
     <<"U+111D0", "U+111D1", "U+111D2", "U+111D3", "U+111D4", "U+111D5", "U+111D6", "U+111D7", "U+111D8", "U+111D9">>,
     <<"U+112F0", "U+112F1", "U+112F2", "U+112F3", "U+112F4", "U+112F5", "U+112F6", "U+112F7", "U+112F8", "U+112F9">>,
     <<"U+11450", "U+11451", "U+11452", "U+11453", "U+11454", "U+11455", "U+11456", "U+11457", "U+11458", "U+11459">>,
     <<"U+114D0", "U+114D1", "U+114D2", "U+114D3", "U+114D4", "U+114D5", "U+114D6", "U+114D7", "U+114D8", "U+114D9">>,
     <<"U+11650", "U+11651", "U+11652", "U+11653", "U+11654", "U+11655", "U+11656", "U+11657", "U+11658", "U+11659">>,
     <<"U+116C0", "U+116C1", "U+116C2", "U+116C3", "U+116C4", "U+116C5", "U+116C6", "U+116C7", "U+116C8", "U+116C9">>,
     <<"U+11730", "U+11731", "U+11732", "U+11733", "U+11734", "U+11735", "U+11736", "U+11737", "U+11738", "U+11739">>,
     <<"U+118E0", "U+118E1", "U+118E2", "U+118E3", "U+118E4", "U+118E5", "U+118E6", "U+118E7", "U+118E8", "U+118E9">>,
     <<"U+11950", "U+11951", "U+11952", "U+11953", "U+11954", "U+11955", "U+11956", "U+11957", "U+11958", "U+11959">>,
     <<"U+11C50", "U+11C51", "U+11C52", "U+11C53", "U+11C54", "U+11C55", "U+11C56", "U+11C57", "U+11C58", "U+11C59">>,
     <<"U+11D50", "U+11D51", "U+11D52", "U+11D53", "U+11D54", "U+11D55", "U+11D56", "U+11D57", "U+11D58", "U+11D59">>,
     <<"U+11DA0", "U+11DA1", "U+11DA2", "U+11DA3", "U+11DA4", "U+11DA5", "U+11DA6", "U+11DA7", "U+11DA8", "U+11DA9">>,
     <<"U+16A60", "U+16A61", "U+16A62", "U+16A63", "U+16A64", "U+16A65", "U+16A66", "U+16A67", "U+16A68", "U+16A69">>,
     <<"U+16AC0", "U+16AC1", "U+16AC2", "U+16AC3", "U+16AC4", "U+16AC5", "U+16AC6", "U+16AC7", "U+16AC8", "U+16AC9">>,
     <<"U+16B50", "U+16B51", "U+16B52", "U+16B53", "U+16B54", "U+16B55", "U+16B56", "U+16B57", "U+16B58", "U+16B59">>,
     <<"U+1D7CE", "U+1D7CF", "U+1D7D0", "U+1D7D1", "U+1D7D2", "U+1D7D3", "U+1D7D4", "U+1D7D5", "U+1D7D6", "U+1D7D7">>,
     <<"U+1D7D8", "U+1D7D9", "U+1D7DA", "U+1D7DB", "U+1D7DC", "U+1D7DD", "U+1D7DE", "U+1D7DF", "U+1D7E0", "U+1D7E1">>,
     <<"U+1D7E2", "U+1D7E3", "U+1D7E4", "U+1D7E5", "U+1D7E6", "U+1D7E7", "U+1D7E8", "U+1D7E9", "U+1D7EA", "U+1D7EB">>,
     <<"U+1D7EC", "U+1D7ED", "U+1D7EE", "U+1D7EF", "U+1D7F0", "U+1D7F1", "U+1D7F2", "U+1D7F3", "U+1D7F4", "U+1D7F5">>,
     <<"U+1D7F6", "U+1D7F7", "U+1D7F8", "U+1D7F9", "U+1D7FA", "U+1D7FB", "U+1D7FC", "U+1D7FD", "U+1D7FE", "U+1D7FF">>,
     <<"U+1E140", "U+1E141", "U+1E142", "U+1E143", "U+1E144", "U+1E145", "U+1E146", "U+1E147", "U+1E148", "U+1E149">>,
     <<"U+1E2F0", "U+1E2F1", "U+1E2F2", "U+1E2F3", "U+1E2F4", "U+1E2F5", "U+1E2F6", "U+1E2F7", "U+1E2F8", "U+1E2F9">>,
     <<"U+1E950", "U+1E951", "U+1E952", "U+1E953", "U+1E954", "U+1E955", "U+1E956", "U+1E957", "U+1E958", "U+1E959">>,
     <<"U+1FBF0", "U+1FBF1", "U+1FBF2", "U+1FBF3", "U+1FBF4", "U+1FBF5", "U+1FBF6", "U+1FBF7", "U+1FBF8", "U+1FBF9">>
    }

\* \d of a str pattern: every Unicode decimal digit
IsDigit(c) == c \in AsciiDigit \/ \E run \in DigitRuns : \E i \in 1..10 : run[i] = c

\* int() of one digit
DigitVal(c) ==
    CASE c = "0" -> 0 [] c = "1" -> 1 [] c = "2" -> 2 [] c = "3" -> 3
      [] c = "4" -> 4 [] c = "5" -> 5 [] c = "6" -> 6 [] c = "7" -> 7
      [] c = "8" -> 8 [] c = "9" -> 9
      [] OTHER -> (CHOOSE i \in 1..10 : \E run \in DigitRuns : run[i] = c) - 1

\* s[i:] and s[:i] with Python's 0-based i
From(s, i) == SubSeq(s, i + 1, Len(s))
Upto(s, i) == SubSeq(s, 1, i)

\* s.startswith(p), s.endswith(p) for a one-character p; c in s
startswith(s, c) == Len(s) > 0 /\ s[1] = c
endswith(s, c) == Len(s) > 0 /\ s[Len(s)] = c
contains(s, c) == \E i \in 1..Len(s) : s[i] = c

\* s.find(c): 0-based index of the first c, -1 when there is none
find(s, c) ==
    IF contains(s, c)
    THEN (CHOOSE i \in 1..Len(s) : s[i] = c /\ \A j \in 1..(i - 1) : s[j] # c) - 1
    ELSE -1

\* int(s) of a group strptime matched: digits, after an optional leading space
RECURSIVE int(_)
int(s) ==
    IF s = <<>> THEN 0
    ELSE IF IsDigit(s[Len(s)])
         THEN 10 * int(Upto(s, Len(s) - 1)) + DigitVal(s[Len(s)])
         ELSE int(Upto(s, Len(s) - 1))

\* str.strip()
RECURSIVE lstrip(_)
lstrip(s) == IF s # <<>> /\ s[1] \in Whitespace THEN lstrip(Tail(s)) ELSE s
RECURSIVE rstrip(_)
rstrip(s) ==
    IF s # <<>> /\ s[Len(s)] \in Whitespace THEN rstrip(Upto(s, Len(s) - 1)) ELSE s
strip(s) == rstrip(lstrip(s))

\* str.splitlines(): a line break ends a line, "\r\n" counting as one; no
\* empty last line.
\* LineEnds: the positions of the last character of each line terminator.
LineEnds(t) ==
    {i \in 1..Len(t) :
        /\ t[i] \in LineBreak
        /\ ~(t[i] = "\r" /\ i < Len(t) /\ t[i + 1] = "\n")}
\* the k-th smallest position of a set of positions; 0 for k = 0
KthEnd(ends, k) ==
    IF k = 0 THEN 0
    ELSE CHOOSE e \in ends : Cardinality({x \in ends : x < e}) = k - 1
splitlines(t) ==
    LET ends == LineEnds(t)
        n == Cardinality(ends)
        last == KthEnd(ends, n)
        line(k) ==
            LET e == KthEnd(ends, k)
                first == KthEnd(ends, k - 1) + 1
                stop == IF t[e] = "\n" /\ e > first /\ t[e - 1] = "\r"
                        THEN e - 2 ELSE e - 1
            IN SubSeq(t, first, stop)
        terminated == [k \in 1..n |-> line(k)]
    IN IF last < Len(t) THEN Append(terminated, SubSeq(t, last + 1, Len(t)))
       ELSE terminated

-----------------------------------------------------------------------------
(* datetime.strptime, as _strptime computes it: the format becomes a regular
   expression of one group per directive, each an ordered alternation; the
   first match in backtracking order is taken (re.IGNORECASE), the whole
   value must be consumed, and datetime() validates the fields. *)

\* a character class of the expressions: \d, a range, or one character
InClass(c, cls) ==
    CASE cls = "\\d" -> IsDigit(c)
      [] cls = "[1-9]" -> c \in Digit19
      [] cls = "[0-5]" -> c \in Digit05
      [] cls = "[0-3]" -> c \in {"0", "1", "2", "3"}
      [] cls = "[0-2]" -> c \in {"0", "1", "2"}
      [] cls = "[01]" -> c \in {"0", "1"}
      [] cls = "[12]" -> c \in {"1", "2"}
      [] cls = "T" -> c \in {"T", "t"}
      [] cls = "Z" -> c \in {"Z", "z"}
      [] OTHER -> c = cls

\* the alternatives of a directive, in the order the regular expression tries them
Alternatives(d) ==
    CASE d = "Y" -> << <<"\\d", "\\d", "\\d", "\\d">> >>
      [] d = "m" -> << <<"1", "[0-2]">>, <<"0", "[1-9]">>, <<"[1-9]">> >>
      [] d = "d" -> << <<"3", "[01]">>, <<"[12]", "\\d">>, <<"0", "[1-9]">>,
                       <<"[1-9]">>, <<" ", "[1-9]">> >>
      [] d = "H" -> << <<"2", "[0-3]">>, <<"[01]", "\\d">>, <<"\\d">> >>
      [] d = "M" -> << <<"[0-5]", "\\d">>, <<"\\d">> >>
      [] d = "S" -> << <<"6", "[01]">>, <<"[0-5]", "\\d">>, <<"\\d">> >>
      [] d = "T" -> << <<"T">> >>
      [] d = "Z" -> << <<"Z">> >>

\* "%Y%m%dT%H%M%SZ", "%Y%m%dT%H%M%S" and "%Y%m%d", directive by directive
FmtZ == <<"Y", "m", "d", "T", "H", "M", "S", "Z">>
FmtT == <<"Y", "m", "d", "T", "H", "M", "S">>
FmtD == <<"Y", "m", "d">>

\* alt matches val at 1-based position pos
AltMatches(val, pos, alt) ==
    /\ pos + Len(alt) - 1 <= Len(val)
    /\ \A k \in 1..Len(alt) : InClass(val[pos + k - 1], alt[k])

NoMatch == [ok |-> FALSE, end |-> 0, groups |-> <<>>]

\* re.match of the format's expression at pos; groups: the text of each directive
RECURSIVE re_match(_, _, _)
RECURSIVE re_alternation(_, _, _, _)
re_match(val, pos, fmt) ==
    IF fmt = <<>> THEN [ok |-> TRUE, end |-> pos, groups |-> <<>>]
    ELSE re_alternation(val, pos, fmt, 1)
re_alternation(val, pos, fmt, k) ==
    LET alts == Alternatives(Head(fmt)) IN
    IF k > Len(alts) THEN NoMatch
    ELSE IF AltMatches(val, pos, alts[k])
         THEN LET rest == re_match(val, pos + Len(alts[k]), Tail(fmt)) IN
              IF rest.ok
              THEN [ok |-> TRUE, end |-> rest.end,
                    groups |-> <<SubSeq(val, pos, pos + Len(alts[k]) - 1)>> \o rest.groups]
              ELSE re_alternation(val, pos, fmt, k + 1)
         ELSE re_alternation(val, pos, fmt, k + 1)

IsLeap(y) == (y % 4 = 0 /\ y % 100 # 0) \/ y % 400 = 0
DaysInMonth(y, m) ==
    IF m = 2 THEN (IF IsLeap(y) THEN 29 ELSE 28)
    ELSE IF m \in {4, 6, 9, 11} THEN 30 ELSE 31

ValueError == [ok |-> FALSE]

\* datetime.strptime(val, fmt).replace(tzinfo=timezone.utc)
strptime(val, fmt) ==
    LET found == re_match(val, 1, fmt) IN
    IF ~found.ok THEN ValueError                      \* does not match format
    ELSE IF found.end # Len(val) + 1 THEN ValueError  \* unconverted data remains
    ELSE LET g == found.groups
             timed == Len(fmt) > 3
             y == int(g[1])
             mo == int(g[2])
             d == int(g[3])
             h == IF timed THEN int(g[5]) ELSE 0
             mi == IF timed THEN int(g[6]) ELSE 0
             s == IF timed THEN int(g[7]) ELSE 0
         IN IF y < 1 \/ d > DaysInMonth(y, mo) \/ s > 59 THEN ValueError
            ELSE [ok |-> TRUE,
                  dt |-> [year |-> y, month |-> mo, day |-> d,
                          hour |-> h, minute |-> mi, second |-> s, tzinfo |-> "UTC"]]

\* parse_dt, the closure of parse_ical
parse_dt(val) ==
    IF endswith(val, "Z") THEN strptime(val, FmtZ)
    ELSE IF contains(val, "T") THEN strptime(val, FmtT)
    ELSE strptime(val, FmtD)

-----------------------------------------------------------------------------
(* parse_ical from resp.text on *)

BEGIN_VEVENT == <<"B", "E", "G", "I", "N", ":", "V", "E", "V", "E", "N", "T">>
END_VEVENT == <<"E", "N", "D", ":", "V", "E", "V", "E", "N", "T">>
DTSTART == <<"D", "T", "S", "T", "A", "R", "T">>
DTEND == <<"D", "T", "E", "N", "D">>
UID == <<"U", "I", "D">>
SUMMARY == <<"S", "U", "M", "M", "A", "R", "Y">>
LOCATION == <<"L", "O", "C", "A", "T", "I", "O", "N">>
DESCRIPTION == <<"D", "E", "S", "C", "R", "I", "P", "T", "I", "O", "N">>
STATUS == <<"S", "T", "A", "T", "U", "S">>
NoTitle == <<"(", "N", "o", " ", "t", "i", "t", "l", "e", ")">>

\* {} and the dict operations parse_ical uses
EmptyDict == [k \in {} |-> None]
get(dict, key) == IF key \in DOMAIN dict THEN dict[key] ELSE None
put(dict, key, val) ==
    [k \in DOMAIN dict \cup {key} |-> IF k = key THEN val ELSE dict[k]]

\* lines = [l.strip() for l in text.splitlines()]
stripped_lines(t) ==
    LET ls == splitlines(t) IN [i \in 1..Len(ls) |-> strip(ls[i])]

\* the "Handle folded lines" loop over lines
RECURSIVE unfold_from(_, _, _)
unfold_from(lines, i, acc) ==
    IF i > Len(lines) THEN acc
    ELSE LET line == lines[i] IN
         IF startswith(line, " ") \/ startswith(line, "\t")
         THEN IF acc # <<>>
              THEN unfold_from(lines, i + 1,
                               [acc EXCEPT ![Len(acc)] = @ \o From(line, 1)])
              ELSE unfold_from(lines, i + 1, acc)
         ELSE unfold_from(lines, i + 1, Append(acc, line))
unfold(lines) == unfold_from(lines, 1, <<>>)

\* the all-day test on the start value
is_all_day(start_val) == Len(start_val) = 8 /\ ~contains(start_val, "T")

\* the fields of an emitted event other than the instants
event_of(c, start, end, all_day) ==
    [uid |-> get(c, UID),
     title |-> py_or(get(c, SUMMARY), NoTitle),
     start |-> start,
     end |-> end,
     all_day |-> all_day,
     location |-> get(c, LOCATION),
     description |-> get(c, DESCRIPTION),
     status |-> get(c, STATUS)]

\* block_events with a slip: a block is emitted as soon as its DTSTART parses,
\* a missing or bad DTEND falling back to the start
block_events_lenient(c) ==
    IF truthy(get(c, DTSTART))
    THEN LET start == parse_dt(get(c, DTSTART))
             end == IF truthy(get(c, DTEND)) THEN parse_dt(get(c, DTEND)) ELSE ValueError
         IN IF start.ok
            THEN << event_of(c, start.dt, IF end.ok THEN end.dt ELSE start.dt,
                             is_all_day(get(c, DTSTART))) >>
            ELSE <<>>
    ELSE <<>>

\* block_events with a slip: all_day asks for a date-only DTEND as well
block_events_both_dates(c) ==
    IF truthy(get(c, DTSTART)) /\ truthy(get(c, DTEND))
    THEN LET start == parse_dt(get(c, DTSTART))
             end == parse_dt(get(c, DTEND))
         IN IF start.ok /\ end.ok
            THEN << event_of(c, start.dt, end.dt,
                             is_all_day(get(c, DTSTART)) /\ is_all_day(get(c, DTEND))) >>
            ELSE <<>>
    ELSE <<>>

\* the body of the END:VEVENT branch: the events the closed block appends
block_events(c) ==
    IF truthy(get(c, DTSTART)) /\ truthy(get(c, DTEND))
    THEN LET start_val == get(c, DTSTART)
             end_val == get(c, DTEND)
             start == parse_dt(start_val)
             end == parse_dt(end_val)
         IN IF start.ok /\ end.ok
            THEN << event_of(c, start.dt, end.dt, is_all_day(start_val)) >>
            ELSE <<>>                                  \* except Exception: pass
    ELSE <<>>

\* key, val = line.split(":", 1); key = key.split(";")[0]
prop_key(line) ==
    LET k == Upto(line, find(line, ":")) IN
    IF contains(k, ";") THEN Upto(k, find(k, ";")) ELSE k
prop_val(line) == From(line, find(line, ":") + 1)

\* scan_line with a slip: BEGIN:VEVENT opens a block without emptying cur
scan_line_keep(st, line) ==
    IF line = BEGIN_VEVENT
    THEN [cur |-> st.cur, in_event |-> TRUE, events |-> st.events]
    ELSE IF line = END_VEVENT
    THEN [cur |-> EmptyDict, in_event |-> FALSE,
          events |-> st.events \o block_events(st.cur)]
    ELSE IF st.in_event /\ contains(line, ":")
    THEN [st EXCEPT !.cur = put(st.cur, prop_key(line), prop_val(line))]
    ELSE st

\* one iteration of "for line in unfolded" on the loop state st
scan_line(st, line) ==
    IF line = BEGIN_VEVENT
    THEN [cur |-> EmptyDict, in_event |-> TRUE, events |-> st.events]
    ELSE IF line = END_VEVENT
    THEN [cur |-> EmptyDict, in_event |-> FALSE,
          events |-> st.events \o block_events(st.cur)]
    ELSE IF st.in_event /\ contains(line, ":")
    THEN [st EXCEPT !.cur = put(st.cur, prop_key(line), prop_val(line))]
    ELSE st

RECURSIVE scan_from(_, _, _)
scan_from(lines, i, st) ==
    IF i > Len(lines) THEN st
    ELSE scan_from(lines, i + 1, scan_line(st, lines[i]))

ScanStart == [cur |-> EmptyDict, in_event |-> FALSE, events |-> <<>>]

\* parse_ical after the download: the events of resp.text
parse_ical(t) == scan_from(unfold(stripped_lines(t)), 1, ScanStart).events

-----------------------------------------------------------------------------
(* Feed texts. A document is a concatenation of fragments; every fragment is
   a piece of iCal text with its own line terminators. *)

\* a well-formed block, UTC datetimes, SUMMARY written twice
FragGood ==
    <<"B", "E", "G", "I", "N", ":", "V", "E", "V", "E", "N", "T", "\r", "\n", "U", "I", "D", ":", "a", "1", "\r", "\n", "D", "T", "S", "T", "A", "R", "T", ":", "2", "0", "2", "4", "0", "1", "1", "5", "T", "0", "9", "0", "0", "0", "0", "Z", "\r", "\n", "D", "T", "E", "N", "D", ":", "2", "0", "2", "4", "0", "1", "1", "5", "T", "1", "0", "0", "0", "0", "0", "Z", "\r", "\n", "S", "U", "M", "M", "A", "R", "Y", ":", "O", "l", "d", "\r", "\n", "S", "U", "M", "M", "A", "R", "Y", ":", "S", "t", "a", "y", "\r", "\n", "E", "N", "D", ":", "V", "E", "V", "E", "N", "T", "\r", "\n">>
\* date-only DTSTART with a datetime DTEND, no SUMMARY
FragAllDay ==
    <<"B", "E", "G", "I", "N", ":", "V", "E", "V", "E", "N", "T", "\n", "D", "T", "S", "T", "A", "R", "T", ":", "2", "0", "2", "4", "0", "1", "1", "5", "\n", "D", "T", "E", "N", "D", ":", "2", "0", "2", "4", "0", "1", "1", "6", "T", "1", "0", "0", "0", "0", "0", "Z", "\n", "E", "N", "D", ":", "V", "E", "V", "E", "N", "T", "\n">>
\* naive datetime DTSTART with a TZID parameter, date-only DTEND
FragNaive ==
    <<"B", "E", "G", "I", "N", ":", "V", "E", "V", "E", "N", "T", "\r", "\n", "D", "T", "S", "T", "A", "R", "T", ";", "T", "Z", "I", "D", "=", "E", "u", "r", "o", "p", "e", "/", "R", "o", "m", "e", ":", "2", "0", "2", "4", "0", "1", "1", "5", "T", "0", "9", "0", "0", "0", "0", "\r", "\n", "D", "T", "E", "N", "D", ";", "V", "A", "L", "U", "E", "=", "D", "A", "T", "E", ":", "2", "0", "2", "4", "0", "1", "1", "6", "\r", "\n", "S", "T", "A", "T", "U", "S", ":", "C", "O", "N", "F", "I", "R", "M", "E", "D", "\r", "\n", "E", "N", "D", ":", "V", "E", "V", "E", "N", "T", "\r", "\n">>
\* a block without DTEND
FragNoEnd ==
    <<"B", "E", "G", "I", "N", ":", "V", "E", "V", "E", "N", "T", "\n", "D", "T", "S", "T", "A", "R", "T", ":", "2", "0", "2", "4", "0", "1", "1", "5", "T", "0", "9", "0", "0", "0", "0", "Z", "\n", "S", "U", "M", "M", "A", "R", "Y", ":", "N", "o", "E", "n", "d", "\n", "E", "N", "D", ":", "V", "E", "V", "E", "N", "T", "\n">>
\* a block whose DTSTART does not parse
FragBadStart ==
    <<"B", "E", "G", "I", "N", ":", "V", "E", "V", "E", "N", "T", "\n", "D", "T", "S", "T", "A", "R", "T", ":", "n", "o", "t", "-", "a", "-", "d", "a", "t", "e", "\n", "D", "T", "E", "N", "D", ":", "2", "0", "2", "4", "0", "1", "1", "6", "\n", "E", "N", "D", ":", "V", "E", "V", "E", "N", "T", "\n">>
\* a block whose date-only DTSTART has 7 characters
FragShortDate ==
    <<"B", "E", "G", "I", "N", ":", "V", "E", "V", "E", "N", "T", "\n", "D", "T", "S", "T", "A", "R", "T", ":", "2", "0", "2", "4", "1", "1", "5", "\n", "D", "T", "E", "N", "D", ":", "2", "0", "2", "4", "0", "1", "1", "6", "\n", "E", "N", "D", ":", "V", "E", "V", "E", "N", "T", "\n">>
\* a block whose DTSTART value is folded over two physical lines
FragFolded ==
    <<"B", "E", "G", "I", "N", ":", "V", "E", "V", "E", "N", "T", "\r", "\n", "D", "T", "S", "T", "A", "R", "T", ":", "2", "0", "2", "4", "0", "1", "1", "5", "T", "0", "9", "\r", "\n", " ", "0", "0", "0", "0", "Z", "\r", "\n", "D", "T", "E", "N", "D", ":", "2", "0", "2", "4", "0", "1", "1", "5", "T", "1", "0", "0", "0", "0", "0", "Z", "\r", "\n", "E", "N", "D", ":", "V", "E", "V", "E", "N", "T", "\r", "\n">>
\* an END:VEVENT with no open block, then a property line outside any block
FragStray ==
    <<"E", "N", "D", ":", "V", "E", "V", "E", "N", "T", "\n", "S", "U", "M", "M", "A", "R", "Y", ":", "O", "u", "t", "\n">>
\* a block that is opened and never closed
FragUnclosed ==
    <<"B", "E", "G", "I", "N", ":", "V", "E", "V", "E", "N", "T", "\n", "U", "I", "D", ":", "l", "o", "s", "t", "\n", "D", "T", "S", "T", "A", "R", "T", ":", "1", "9", "9", "9", "0", "1", "0", "1", "\n", "L", "O", "C", "A", "T", "I", "O", "N", ":", "N", "o", "w", "h", "e", "r", "e", "\n">>
\* naive datetimes whose TZID parameter is a quoted string holding a colon
FragQuoted ==
    <<"B", "E", "G", "I", "N", ":", "V", "E", "V", "E", "N", "T", "\r", "\n", "U", "I", "D", ":", "q", "7", "\r", "\n", "D", "T", "S", "T", "A", "R", "T", ";", "T", "Z", "I", "D", "=", "\"", "(", "U", "T", "C", "+", "0", "1", ":", "0", "0", ")", " ", "R", "o", "m", "e", "\"", ":", "2", "0", "2", "4", "0", "1", "1", "5", "T", "0", "9", "0", "0", "0", "0", "\r", "\n", "D", "T", "E", "N", "D", ";", "T", "Z", "I", "D", "=", "\"", "(", "U", "T", "C", "+", "0", "1", ":", "0", "0", ")", " ", "R", "o", "m", "e", "\"", ":", "2", "0", "2", "4", "0", "1", "1", "5", "T", "1", "0", "0", "0", "0", "0", "\r", "\n", "E", "N", "D", ":", "V", "E", "V", "E", "N", "T", "\r", "\n">>
\* a block whose lines end at form feed, line feed and U+0085, with a no-break
\* space and U+001F at line ends and fullwidth digits in the dates
FragUnicode ==
    <<"B", "E", "G", "I", "N", ":", "V", "E", "V", "E", "N", "T", "U+00A0", "\f", "U", "I", "D", ":", "u", "8", "\f", "D", "T", "S", "T", "A", "R", "T", ":", "U+FF12", "U+FF10", "U+FF12", "U+FF14", "0", "1", "1", "5", "U+001F", "\n", "D", "T", "E", "N", "D", ":", "2", "0", "2", "4", "0", "1", "1", "U+FF16", "T", "1", "U+FF10", "0", "0", "0", "0", "Z", "U+0085", "E", "N", "D", ":", "V", "E", "V", "E", "N", "T", "\n">>

Fragments ==
    {FragGood, FragAllDay, FragNaive, FragNoEnd, FragBadStart, FragShortDate,
     FragFolded, FragStray, FragUnclosed, FragQuoted, FragUnicode}

\* the longest document of a parser run, in fragments
MaxFrags == 3

RECURSIVE DocsOf(_)
DocsOf(n) ==
    IF n = 0 THEN {<<>>}
    ELSE LET shorter == DocsOf(n - 1) IN
         shorter \cup {d \o f : d \in shorter, f \in Fragments}
Docs == DocsOf(MaxFrags)

\* What a feed URL can serve to a sync: a calendar of no, one or two events.
\* a calendar without events
FeedNone ==
    <<"B", "E", "G", "I", "N", ":", "V", "C", "A", "L", "E", "N", "D", "A", "R", "\r", "\n", "V", "E", "R", "S", "I", "O", "N", ":", "2", ".", "0", "\r", "\n", "E", "N", "D", ":", "V", "C", "A", "L", "E", "N", "D", "A", "R", "\r", "\n">>
\* a calendar with the event a1
FeedOne ==
    <<"B", "E", "G", "I", "N", ":", "V", "C", "A", "L", "E", "N", "D", "A", "R", "\r", "\n", "V", "E", "R", "S", "I", "O", "N", ":", "2", ".", "0", "\r", "\n", "B", "E", "G", "I", "N", ":", "V", "E", "V", "E", "N", "T", "\r", "\n", "U", "I", "D", ":", "a", "1", "\r", "\n", "D", "T", "S", "T", "A", "R", "T", ":", "2", "0", "2", "4", "0", "1", "1", "5", "T", "0", "9", "0", "0", "0", "0", "Z", "\r", "\n", "D", "T", "E", "N", "D", ":", "2", "0", "2", "4", "0", "1", "1", "5", "T", "1", "0", "0", "0", "0", "0", "Z", "\r", "\n", "S", "U", "M", "M", "A", "R", "Y", ":", "S", "t", "a", "y", "\r", "\n", "E", "N", "D", ":", "V", "E", "V", "E", "N", "T", "\r", "\n", "E", "N", "D", ":", "V", "C", "A", "L", "E", "N", "D", "A", "R", "\r", "\n">>
\* a calendar with a1 and the all-day event b2, which has no SUMMARY
FeedTwo ==
    <<"B", "E", "G", "I", "N", ":", "V", "C", "A", "L", "E", "N", "D", "A", "R", "\r", "\n", "V", "E", "R", "S", "I", "O", "N", ":", "2", ".", "0", "\r", "\n", "B", "E", "G", "I", "N", ":", "V", "E", "V", "E", "N", "T", "\r", "\n", "U", "I", "D", ":", "a", "1", "\r", "\n", "D", "T", "S", "T", "A", "R", "T", ":", "2", "0", "2", "4", "0", "1", "1", "5", "T", "0", "9", "0", "0", "0", "0", "Z", "\r", "\n", "D", "T", "E", "N", "D", ":", "2", "0", "2", "4", "0", "1", "1", "5", "T", "1", "0", "0", "0", "0", "0", "Z", "\r", "\n", "S", "U", "M", "M", "A", "R", "Y", ":", "S", "t", "a", "y", "\r", "\n", "E", "N", "D", ":", "V", "E", "V", "E", "N", "T", "\r", "\n", "B", "E", "G", "I", "N", ":", "V", "E", "V", "E", "N", "T", "\r", "\n", "U", "I", "D", ":", "b", "2", "\r", "\n", "D", "T", "S", "T", "A", "R", "T", ";", "V", "A", "L", "U", "E", "=", "D", "A", "T", "E", ":", "2", "0", "2", "4", "0", "1", "2", "0", "\r", "\n", "D", "T", "E", "N", "D", ";", "V", "A", "L", "U", "E", "=", "D", "A", "T", "E", ":", "2", "0", "2", "4", "0", "1", "2", "2", "\r", "\n", "E", "N", "D", ":", "V", "E", "V", "E", "N", "T", "\r", "\n", "E", "N", "D", ":", "V", "C", "A", "L", "E", "N", "D", "A", "R", "\r", "\n">>

\* the documents a download can return; resp.text is the text of one
FeedDocs == {"none", "one", "two"}
FeedText(doc) ==
    CASE doc = "none" -> FeedNone
      [] doc = "one" -> FeedOne
      [] doc = "two" -> FeedTwo

\* parse_ical of every document a URL can serve, computed once
Parsed == [doc \in FeedDocs |-> parse_ical(FeedText(doc))]

-----------------------------------------------------------------------------
(* The database and the requests *)

ListingIds == {<<"L", "1">>, <<"L", "2">>}
\* the display name given to every registered source
SourceName == <<"A", "i", "r", "b", "n", "b">>

\* the most sources the registrations create
MaxSources == 2

\* the most sync calls that arrive
MaxCalls == 2

\* the request slots of the server: two worker threads
Reqs == {"r1", "r2"}

\* An ObjectId string is 24 hex digits; the model writes only its last OidLen
\* digits (the leading zeros are left out).
OidLen == 1
HexDigit == AsciiDigit \cup {"a", "b", "c", "d", "e", "f", "A", "B", "C", "D", "E", "F"}
DigitChar(n) == CHOOSE c \in AsciiDigit : DigitVal(c) = n

\* str(_id) of the ObjectId n, and a string of the same length that is not hex
str_id(n) == [k \in 1..OidLen |-> IF k = OidLen THEN DigitChar(n) ELSE "0"]
Malformed == [k \in 1..OidLen |-> "z"]
IdStrings == {str_id(n) : n \in 1..(MaxSources + 1)} \cup {Malformed}

\* bson.ObjectId(s): InvalidId unless s is a hex string of the right length
ObjectId(s) ==
    IF Len(s) = OidLen /\ \A k \in 1..Len(s) : s[k] \in HexDigit
    THEN [ok |-> TRUE, oid |-> int(s)]
    ELSE [ok |-> FALSE, oid |-> 0]


\* db[collection].find(q) for the two filters sync_calendars uses, in natural order
find_by_listing(coll, listing_id) ==
    SelectSeq(coll, LAMBDA s : listing_id = None \/ s.listing_id = listing_id)
find_by_id(coll, oid) == SelectSeq(coll, LAMBDA s : s._id = oid)

\* delete_many with a slip: the filter is inverted
delete_many_others(coll, sid) == SelectSeq(coll, LAMBDA e : e.source_id = sid)

\* db["event"].delete_many({"source_id": sid}): what is left of the collection
delete_many(coll, sid) == SelectSeq(coll, LAMBDA e : e.source_id # sid)

\* the events stored for a source
EventsOf(coll, sid) == SelectSeq(coll, LAMBDA e : e.source_id = sid)

\* stored_event with a slip: every event is stamped with the id of the first
\* source of the collection
stored_event_first(s, e) ==
    [listing_id |-> s.listing_id,
     source_id |-> str_id(1),
     uid |-> e.uid,
     title |-> py_or(e.title, s.name),
     start |-> e.start,
     end |-> e.end,
     all_day |-> e.all_day,
     location |-> e.location,
     description |-> e.description,
     status |-> e.status,
     raw_url |-> s.url]

\* Event(...).model_dump() for the parsed event e of source s. The _id the
\* database assigns and the audit instants created_at and updated_at are left
\* out of the record: no property reads them.
stored_event(s, e) ==
    [listing_id |-> s.listing_id,
     source_id |-> str_id(s._id),
     uid |-> e.uid,
     title |-> py_or(e.title, s.name),
     start |-> e.start,
     end |-> e.end,
     all_day |-> e.all_day,
     location |-> e.location,
     description |-> e.description,
     status |-> e.status,
     raw_url |-> s.url]

\* the batch built from the parsed events of source s
build_batch(s, parsed) == [k \in 1..Len(parsed) |-> stored_event(s, parsed[k])]

\* no value yet, for the history variables and the responses
Nothing == [none |-> TRUE]
NoResponse == [status |-> 0]
Idle ==
    [pc |-> "idle", source_id |-> None, listing_id |-> None, sources |-> <<>>,
     i |-> 1, batch |-> <<>>, total_events |-> 0, response |-> NoResponse,
     \* history of the call, read by the properties only
     pre |-> <<>>, fetched |-> <<>>, inserted |-> <<>>, base |-> Nothing,
     alone |-> TRUE]

NoRun ==
    /\ text = <<>> /\ ppc = "off" /\ unfolded = <<>> /\ pidx = 1
    /\ cur = EmptyDict /\ in_event = FALSE /\ events = <<>>

EmptyDb ==
    /\ calendarsource = <<>>
    /\ event = <<>>
    /\ req = [r \in Reqs |-> Idle]
    /\ prev = Nothing
    /\ added = [r \in Reqs |-> Nothing]
    /\ calls = 0

Init == NoRun /\ EmptyDb

-----------------------------------------------------------------------------
(* The requests. The endpoints are plain functions, which the framework runs
   on worker threads: nothing makes a request wait for another, and two
   requests interleave at their database and network operations. *)

\* the slot serves no request
Free(r) == req[r].pc = "idle" /\ added[r] = Nothing

\* the registration of the slot stands between its lookup and its insert
Creating(r) == added[r] # Nothing /\ added[r].pc = "create"

\* the request of the slot has database operations ahead of it
Busy(r) == req[r].pc \in {"purge", "fetch", "insert"} \/ Creating(r)

\* a request arrives: it is served by the first free slot
Arrives(r) == Free(r) /\ (r = "r2" => ~Free("r1"))

\* history: the calls in progress are no longer alone once a request arrives
Overlapped(r) ==
    [x \in Reqs |-> IF x # r /\ Busy(x) THEN [req[x] EXCEPT !.alone = FALSE]
                    ELSE req[x]]

-----------------------------------------------------------------------------
(* POST /api/sources *)

\* database.create_document(collection, data): the document is inserted under
\* a new _id, which is returned
create_document(coll, doc) ==
    LET id == Len(coll) + 1 IN
    [coll |-> Append(coll, [_id |-> id] @@ doc), id |-> id]

\* add_source up to its lookup: the existing source of the same url and
\* listing is answered, or the registration goes on to create one
add_source(r, listing_id, url) ==
    LET existing == SelectSeq(calendarsource,
                              LAMBDA s : s.url = url /\ s.listing_id = listing_id)
    IN /\ existing = <<>> =>
              Len(calendarsource) + Cardinality({x \in Reqs : Creating(x)}) < MaxSources
       /\ added' = [added EXCEPT ![r] =
                      IF existing # <<>>
                      THEN [pc |-> "done", created |-> FALSE,
                            response |-> [status |-> 200,
                                          id |-> str_id(existing[1]._id),
                                          listing_id |-> existing[1].listing_id,
                                          url |-> existing[1].url]]
                      ELSE [pc |-> "create", listing_id |-> listing_id, url |-> url]]

\* add_source from create_document on: the source is inserted, and building
\* the response fails, SourceOut.url being a str and the dumped url an HttpUrl
add_source_create(r) ==
    LET made == create_document(calendarsource,
                    [listing_id |-> added[r].listing_id, name |-> SourceName,
                     url |-> added[r].url])
    IN /\ calendarsource' = made.coll
       /\ added' = [added EXCEPT ![r] =
                      [pc |-> "failed", created |-> TRUE,
                       response |-> [status |-> 500]]]     \* ValidationError

\* the registrations a caller asks for: two feeds of one listing, and the first
\* feed again under another listing
Registrations ==
    {<<<<"L", "1">>, "https://ota.example/a.ics">>,
     <<<<"L", "1">>, "https://ota.example/b.ics">>,
     <<<<"L", "2">>, "https://ota.example/a.ics">>}

AddSource ==
    /\ \E r \in Reqs, g \in Registrations :
          /\ Arrives(r)
          /\ add_source(r, g[1], g[2])
          /\ req' = Overlapped(r)
    /\ prev' = Nothing
    /\ UNCHANGED <<calendarsource, event, calls>>
    /\ UNCHANGED pvars

AddSourceCreate ==
    /\ \E r \in Reqs : Creating(r) /\ add_source_create(r)
    /\ UNCHANGED <<event, req, prev, calls>>
    /\ UNCHANGED pvars

\* the response of POST /api/sources is delivered
AddSourceFinish ==
    /\ \E r \in Reqs :
          /\ added[r] # Nothing
          /\ added[r].pc \in {"done", "failed"}
          /\ added' = [added EXCEPT ![r] = Nothing]
    /\ UNCHANGED <<calendarsource, event, req, prev, calls>>
    /\ UNCHANGED pvars

-----------------------------------------------------------------------------
(* POST /api/sync, one action per database or network operation *)

\* the resolution of the scope: the response of a failure, or the sources
resolve(source_id, listing_id) ==
    IF truthy(source_id)
    THEN LET o == ObjectId(source_id) IN
         IF ~o.ok
         THEN [status |-> 500, sources |-> <<>>]       \* bson.errors.InvalidId
         ELSE LET doc == find_by_id(calendarsource, o.oid) IN
              IF doc = <<>>
              THEN [status |-> 404, sources |-> <<>>]  \* "Source not found"
              ELSE [status |-> 0, sources |-> <<doc[1]>>]
    ELSE [status |-> 0,
          sources |-> find_by_listing(calendarsource,
                                      IF truthy(listing_id) THEN listing_id ELSE None)]

Summary(sources, total) ==
    [status |-> 200, sources_synced |-> Len(sources), events_saved |-> total]

\* the request arrives: the sources are resolved
Begin(r, source_id, listing_id) ==
    /\ req[r].pc = "idle"
    /\ calls < MaxCalls
    /\ LET got == resolve(source_id, listing_id)
           alone == \A x \in Reqs : x = r \/ ~Busy(x)
           call == [Idle EXCEPT
                      !.source_id = source_id,
                      !.listing_id = listing_id,
                      !.sources = got.sources,
                      !.pc = IF got.status # 0 THEN "failed"
                             ELSE IF got.sources = <<>> THEN "done" ELSE "purge",
                      !.response = IF got.status # 0 THEN [status |-> got.status]
                                   ELSE IF got.sources = <<>> THEN Summary(<<>>, 0)
                                   ELSE NoResponse,
                      !.pre = event,
                      !.alone = alone,
                      !.base = IF alone /\ prev # Nothing /\ prev.source_id = source_id
                                  /\ prev.listing_id = listing_id
                               THEN prev ELSE Nothing]
       IN req' = [Overlapped(r) EXCEPT ![r] = call]
    /\ prev' = Nothing
    /\ calls' = calls + 1
    /\ UNCHANGED <<calendarsource, event, added>>
    /\ UNCHANGED pvars

\* db["event"].delete_many({"source_id": sid})
Purge(r) ==
    /\ req[r].pc = "purge"
    /\ LET s == req[r].sources[req[r].i] IN
       event' = delete_many(event, str_id(s._id))
    /\ req' = [req EXCEPT ![r].pc = "fetch"]
    /\ UNCHANGED <<calendarsource, prev, added, calls>>
    /\ UNCHANGED pvars

\* Fetch with a slip: a failed download is answered but the call goes on to
\* the next source
Fetch_carry_on(r) ==
    /\ req[r].pc = "fetch"
    /\ LET q == req[r]
           s == q.sources[q.i]
       IN \E ok \in BOOLEAN, doc \in FeedDocs :
             req' = [req EXCEPT ![r] =
                       IF ok
                       THEN [@ EXCEPT
                               !.pc = "insert",
                               !.batch = build_batch(s, Parsed[doc]),
                               !.fetched = Append(@, doc)]
                       ELSE [@ EXCEPT
                               !.pc = IF q.i = Len(q.sources) THEN "failed" ELSE "purge",
                               !.i = IF q.i = Len(q.sources) THEN q.i ELSE q.i + 1,
                               !.response = [status |-> 400]]]
    /\ UNCHANGED <<calendarsource, event, prev, added, calls>>
    /\ UNCHANGED pvars

\* parsed = parse_ical(url) and the batch: the download fails, or the url
\* serves one of the documents
Fetch(r) ==
    /\ req[r].pc = "fetch"
    /\ LET s == req[r].sources[req[r].i] IN
       \E ok \in BOOLEAN, doc \in FeedDocs :
          req' = [req EXCEPT ![r] =
                    IF ok
                    THEN [@ EXCEPT
                            !.pc = "insert",
                            !.batch = build_batch(s, Parsed[doc]),
                            !.fetched = Append(@, doc)]
                    ELSE [@ EXCEPT
                            !.pc = "failed",
                            !.response = [status |-> 400]]]
    /\ UNCHANGED <<calendarsource, event, prev, added, calls>>
    /\ UNCHANGED pvars

\* db["event"].insert_many(batch), total_events, and the next source or the summary
Insert(r) ==
    /\ req[r].pc = "insert"
    /\ LET q == req[r]
           total == q.total_events + Len(q.batch)
           last == q.i = Len(q.sources)
       IN /\ event' = event \o q.batch
          /\ req' = [req EXCEPT ![r] =
                       [@ EXCEPT
                          !.pc = IF last THEN "done" ELSE "purge",
                          !.i = q.i + 1,
                          !.total_events = total,
                          !.inserted = Append(@, q.batch),
                          !.batch = <<>>,
                          !.response = IF last THEN Summary(q.sources, total)
                                       ELSE NoResponse]]
          /\ prev' = IF last /\ q.alone
                     THEN [source_id |-> q.source_id, listing_id |-> q.listing_id,
                           events_saved |-> total, fetched |-> q.fetched]
                     ELSE Nothing
    /\ UNCHANGED <<calendarsource, added, calls>>
    /\ UNCHANGED pvars

\* the response is delivered
Finish(r) ==
    /\ req[r].pc \in {"done", "failed"}
    /\ req' = [req EXCEPT ![r] = Idle]
    /\ UNCHANGED <<calendarsource, event, prev, added, calls>>
    /\ UNCHANGED pvars

\* the scopes a caller asks for
Scopes ==
    {<<sid, None>> : sid \in IdStrings} \cup {<<None, lid>> : lid \in ListingIds \cup {None}}

SyncBegin == \E r \in Reqs, sc \in Scopes : Arrives(r) /\ Begin(r, sc[1], sc[2])
SyncPurge == \E r \in Reqs : Purge(r)
SyncFetch == \E r \in Reqs : Fetch(r)
SyncInsert == \E r \in Reqs : Insert(r)
SyncFinish == \E r \in Reqs : Finish(r)

Next ==
    \/ AddSource \/ AddSourceCreate \/ AddSourceFinish
    \/ SyncBegin \/ SyncPurge \/ SyncFetch \/ SyncInsert \/ SyncFinish

Spec == Init /\ [][Next]_vars

-----------------------------------------------------------------------------
(* A run of parse_ical on one document, one action per loop iteration *)

ParseInit ==
    /\ text \in Docs
    /\ ppc = "unfold"
    /\ unfolded = <<>> /\ pidx = 1
    /\ cur = EmptyDict /\ in_event = FALSE /\ events = <<>>
    /\ EmptyDb

\* lines, and the unfolding pass
Unfold ==
    /\ ppc = "unfold"
    /\ unfolded' = unfold(stripped_lines(text))
    /\ ppc' = "scan"
    /\ UNCHANGED <<text, pidx, cur, in_event, events>>
    /\ UNCHANGED svars

\* one iteration of the block loop
ScanLine ==
    /\ ppc = "scan"
    /\ pidx <= Len(unfolded)
    /\ LET st == scan_line([cur |-> cur, in_event |-> in_event, events |-> events],
                           unfolded[pidx])
       IN /\ cur' = st.cur
          /\ in_event' = st.in_event
          /\ events' = st.events
    /\ pidx' = pidx + 1
    /\ UNCHANGED <<text, ppc, unfolded>>
    /\ UNCHANGED svars

\* return events
ParseReturn ==
    /\ ppc = "scan"
    /\ pidx > Len(unfolded)
    /\ ppc' = "done"
    /\ UNCHANGED <<text, unfolded, pidx, cur, in_event, events>>
    /\ UNCHANGED svars

ParseNext == Unfold \/ ScanLine \/ ParseReturn

ParseSpec == ParseInit /\ [][ParseNext]_vars

-----------------------------------------------------------------------------
(* Properties of the sync reconciler (specification Spec) *)

\* the id string of the k-th source of a request
Sid(q, k) == str_id(q.sources[k]._id)

\* a request that has returned a summary, or has ended on a failed download
Returned(q) == q.pc = "done" /\ q.response.status = 200
FetchFailed(q) == q.pc = "failed" /\ q.response.status = 400

\* the step is one of the sync call in the slot r
Steps(r) == req'[r].pc # req[r].pc

\* the step is the one on which the sync call in the slot r returns its summary
Returns(r) == Steps(r) /\ Returned(req'[r])

\* the source is within the scope (source_id, listing_id)
InScope(s, source_id, listing_id) ==
    IF truthy(source_id) THEN str_id(s._id) = source_id
    ELSE IF truthy(listing_id) THEN s.listing_id = listing_id
    ELSE TRUE

RECURSIVE SumLen(_)
SumLen(batches) ==
    IF batches = <<>> THEN 0 ELSE Len(Head(batches)) + SumLen(Tail(batches))

NoDuplicates(seq) == \A a, b \in 1..Len(seq) : a # b => seq[a] # seq[b]

\* C1: replace-all. When a sync call returns its summary, the events stored
\* for every source it processed are exactly the events parsed from the feed
\* text fetched for that source in the call, nothing older; and a call on one
\* source whose feed now holds one event reports events_saved = 1 and leaves
\* exactly that event.
C1_ReplaceAll ==
    [][\A r \in Reqs :
          Returns(r) =>
              LET q == req'[r] IN
              /\ Len(q.fetched) = Len(q.sources)
              /\ \A k \in 1..Len(q.sources) :
                    EventsOf(event', Sid(q, k))
                        = build_batch(q.sources[k], Parsed[q.fetched[k]])
              /\ (q.fetched = <<"one">> =>
                    /\ q.response.events_saved = 1
                    /\ Len(EventsOf(event', Sid(q, 1))) = 1)
      ]_vars

\* C2: fetch precedes purge. When the download of a source fails in a call
\* that no other request overlaps, the events stored for that source are
\* still those held before the call.
C2_FetchPrecedesPurge ==
    [][\A r \in Reqs :
          (Steps(r) /\ FetchFailed(req'[r]) /\ req[r].alone) =>
              LET q == req[r] IN
              EventsOf(event', Sid(q, q.i)) = EventsOf(q.pre, Sid(q, q.i))
      ]_vars

\* C3: the sources of a call are processed one after another, a step of the
\* call changing the events of its current source only; a failed download of
\* source k ends the call with the fetch error and no summary, and the call
\* takes no further step on the database. When no other request overlaps the
\* call, the sources before k then hold the events this call inserted for
\* them and every source after k holds its events from before the call.
C3_FailureStopsCall ==
    [][\A r \in Reqs :
          LET q == req[r]
              p == req'[r]
          IN Steps(r) =>
              /\ q.pc \in {"purge", "fetch", "insert"} =>
                    /\ p.i \in {q.i, q.i + 1}
                    /\ \A j \in 1..Len(q.sources) :
                          j # q.i => EventsOf(event', Sid(q, j)) = EventsOf(event, Sid(q, j))
              /\ (q.pc = "fetch" /\ p.pc # "insert") =>
                    /\ p.pc = "failed"
                    /\ p.response = [status |-> 400]
                    /\ p.i = q.i
                    /\ Len(p.inserted) = q.i - 1
                    /\ Len(p.fetched) = q.i - 1
                    /\ q.alone =>
                          /\ \A j \in 1..(q.i - 1) :
                                EventsOf(event', Sid(q, j)) = q.inserted[j]
                          /\ \A j \in (q.i + 1)..Len(q.sources) :
                                EventsOf(event', Sid(q, j)) = EventsOf(q.pre, Sid(q, j))
              /\ q.pc = "failed" => (p.pc = "idle" /\ event' = event)
      ]_vars

\* C3 witness: the first of two sources fails to download while the second
\* holds events from an earlier sync.
C3_Witness ==
    \E r \in Reqs :
        LET q == req[r] IN
        /\ FetchFailed(q)
        /\ q.alone
        /\ q.i = 1
        /\ Len(q.sources) = 2
        /\ EventsOf(q.pre, Sid(q, 2)) # <<>>
        /\ EventsOf(event, Sid(q, 2)) = EventsOf(q.pre, Sid(q, 2))

\* C4: a sync call for a single source id that matches no registered source
\* fails with NotFound (404), fetches nothing and leaves every stored event
\* as it was.
C4_UnknownSourceNotFound ==
    [][\A r \in Reqs :
          LET p == req'[r] IN
          (/\ Steps(r)
           /\ req[r].pc = "idle"
           /\ truthy(p.source_id)
           /\ \A k \in 1..Len(calendarsource) : str_id(calendarsource[k]._id) # p.source_id)
          => /\ p.pc = "failed"
             /\ p.response.status = 404
             /\ p.fetched = <<>>
             /\ event' = event
      ]_vars

\* C5: the summary. A call resolves its scope to the sources registered under
\* it, one for a named source; sources_synced is their number, and
\* events_saved is the number of events this call inserted, which is the
\* number of events stored for those sources when it returns.
C5_SummaryCounts ==
    [][\A r \in Reqs :
          LET p == req'[r]
              scope == {k \in 1..Len(calendarsource) :
                           InScope(calendarsource[k], p.source_id, p.listing_id)}
              sids == {Sid(p, k) : k \in 1..Len(p.sources)}
          IN /\ (Steps(r) /\ req[r].pc = "idle" /\ p.pc \in {"purge", "done"}) =>
                    /\ Len(p.sources) = Cardinality(scope)
                    /\ (truthy(p.source_id) => Len(p.sources) = 1)
             /\ Returns(r) =>
                    /\ p.response.sources_synced = Len(p.sources)
                    /\ p.response.events_saved = SumLen(p.inserted)
                    /\ p.response.events_saved
                          = Cardinality({n \in 1..Len(event') : event'[n].source_id \in sids})
      ]_vars

\* the call follows a sync of the same scope that returned a summary, no
\* request having arrived during that sync or after it, and every download
\* returned it the same document
SecondRun(q) == q.base # Nothing /\ q.fetched = q.base.fetched

\* C6: idempotent replace. A sync that follows a sync of the same scope, the
\* feeds unchanged and no other request overlapping, reports the same
\* events_saved and leaves for every source the same events as the first
\* left, none of them twice.
C6_IdempotentReplace ==
    [][\A r \in Reqs :
          LET p == req'[r] IN
          (Returns(r) /\ SecondRun(p) /\ req[r].alone) =>
              /\ p.response.events_saved = p.base.events_saved
              /\ \A k \in 1..Len(p.sources) :
                    /\ EventsOf(event', Sid(p, k)) = EventsOf(p.pre, Sid(p, k))
                    /\ NoDuplicates(EventsOf(event', Sid(p, k)))
      ]_vars

\* C6 witness: the second of two syncs of every source has returned, with
\* three events saved again.
C6_Witness ==
    \E r \in Reqs :
        LET q == req[r] IN
        /\ Returned(q)
        /\ SecondRun(q)
        /\ q.alone
        /\ Len(q.sources) = 2
        /\ q.response.events_saved = 3
        /\ Len(event) = 3

-----------------------------------------------------------------------------
(* Properties of the parser (specification ParseSpec) *)

\* The blocks of a sequence of logical lines, read off the document: a block
\* is closed by an END:VEVENT line whose nearest BEGIN:VEVENT or END:VEVENT
\* line above it is a BEGIN:VEVENT.
Boundary(lines, i) == lines[i] \in {BEGIN_VEVENT, END_VEVENT}
Opening(lines, j) ==
    LET above == {b \in 1..(j - 1) : Boundary(lines, b)} IN
    IF above = {} THEN 0 ELSE CHOOSE b \in above : \A x \in above : x <= b
Closings(lines) ==
    {j \in 1..Len(lines) :
        /\ lines[j] = END_VEVENT
        /\ Opening(lines, j) > 0
        /\ lines[Opening(lines, j)] = BEGIN_VEVENT}

\* the value of the last line with the key in the block closed at line j
BlockValue(lines, j, key) ==
    LET at == {i \in (Opening(lines, j) + 1)..(j - 1) :
                  contains(lines[i], ":") /\ prop_key(lines[i]) = key}
    IN IF at = {} THEN None
       ELSE prop_val(lines[CHOOSE i \in at : \A x \in at : x <= i])

Parseable(v) == truthy(v) /\ parse_dt(v).ok

\* the closing lines of the blocks that hold a parseable DTSTART and DTEND
Emitting(lines) ==
    {j \in Closings(lines) :
        /\ Parseable(BlockValue(lines, j, DTSTART))
        /\ Parseable(BlockValue(lines, j, DTEND))}

\* the DTSTART and DTEND values of the block behind the k-th emitted event
StartVal(k) == BlockValue(unfolded, KthEnd(Emitting(unfolded), k), DTSTART)
EndVal(k) == BlockValue(unfolded, KthEnd(Emitting(unfolded), k), DTEND)

\* C7: a bad event is not fatal. The emitted events are, one for one and in
\* document order, the blocks of the logical lines that hold a parseable
\* DTSTART and DTEND; every other block is absent.
C7_EmitsParseableBlocks ==
    ppc = "done" =>
        /\ Len(events) = Cardinality(Emitting(unfolded))
        /\ \A k \in 1..Len(events) :
              LET j == KthEnd(Emitting(unfolded), k) IN
              /\ events[k].start = parse_dt(BlockValue(unfolded, j, DTSTART)).dt
              /\ events[k].end = parse_dt(BlockValue(unfolded, j, DTEND)).dt
              /\ events[k].uid = BlockValue(unfolded, j, UID)

\* C7 witness: a block with an unparseable DTSTART between two well-formed
\* blocks; both siblings are emitted.
C7_Witness ==
    /\ ppc = "done"
    /\ text = FragGood \o FragBadStart \o FragAllDay
    /\ Len(events) = 2
    /\ events[1].uid = <<"a", "1">>
    /\ events[2].all_day

\* the physical lines that do not continue the line above them
Leading(lines) ==
    {i \in 1..Len(lines) : ~(startswith(lines[i], " ") \/ startswith(lines[i], "\t"))}

\* the logical lines when every continuation line joins the line above it
Joined(t) ==
    LET whole == unfold(splitlines(t)) IN [i \in 1..Len(whole) |-> strip(whole[i])]

\* C8: unfolding. A continuation line never starts a logical line of its own,
\* and the events are those of the document with every folded property
\* written on one line.
C8_Unfolding ==
    ppc = "done" =>
        /\ Len(unfolded) <= Cardinality(Leading(splitlines(text)))
        /\ events = scan_from(Joined(text), 1, ScanStart).events

\* the three accepted shapes of a DTSTART or DTEND value
AllDigits(v, from, to) == \A i \in from..to : v[i] \in AsciiDigit
ShapeZ(v) ==
    Len(v) = 16 /\ AllDigits(v, 1, 8) /\ v[9] = "T" /\ AllDigits(v, 10, 15) /\ v[16] = "Z"
ShapeT(v) == Len(v) = 15 /\ AllDigits(v, 1, 8) /\ v[9] = "T" /\ AllDigits(v, 10, 15)
ShapeD(v) == Len(v) = 8 /\ AllDigits(v, 1, 8)
Accepted(v) == ShapeZ(v) \/ ShapeT(v) \/ ShapeD(v)

\* C9: an event is emitted only if its DTSTART and its DTEND value each have
\* one of the three accepted shapes.
C9_OnlyAcceptedShapes ==
    ppc = "done" =>
        \A k \in 1..Len(events) : Accepted(StartVal(k)) /\ Accepted(EndVal(k))

\* C10: all_day is true exactly when the DTSTART value has 8 characters and
\* no T, whatever DTEND looks like, and the start is then midnight UTC of
\* that date; a DTSTART in datetime form gives all_day = FALSE.
C10_AllDayFromStart ==
    ppc = "done" =>
        \A k \in 1..Len(events) :
            LET v == StartVal(k) IN
            /\ events[k].all_day <=> (Len(v) = 8 /\ ~contains(v, "T"))
            /\ events[k].all_day =>
                  events[k].start =
                      [year |-> int(SubSeq(v, 1, 4)), month |-> int(SubSeq(v, 5, 6)),
                       day |-> int(SubSeq(v, 7, 8)),
                       hour |-> 0, minute |-> 0, second |-> 0, tzinfo |-> "UTC"]
            /\ contains(v, "T") => ~events[k].all_day

\* C10 witness: a date-only DTSTART with a datetime DTEND is all-day, a
\* datetime DTSTART with a date-only DTEND is not.
C10_Witness ==
    /\ ppc = "done"
    /\ text = FragAllDay \o FragNaive
    /\ Len(events) = 2
    /\ events[1].all_day /\ events[1].end.hour = 10
    /\ events[1].start.day = 15 /\ events[1].start.hour = 0
    /\ ~events[2].all_day /\ events[2].end.hour = 0

\* the property line NAME[;params]:VALUE written without its parameters, as
\* NAME:VALUE; the value starts after the first colon outside double quotes
ValueColon(line) ==
    LET at == {i \in 1..Len(line) :
                  /\ line[i] = ":"
                  /\ Cardinality({j \in 1..(i - 1) : line[j] = "\""}) % 2 = 0}
    IN IF at = {} THEN 0 ELSE CHOOSE i \in at : \A x \in at : i <= x
NameEnd(line) ==
    LET at == {i \in 1..Len(line) : line[i] \in {";", ":"}}
    IN IF at = {} THEN 0 ELSE CHOOSE i \in at : \A x \in at : i <= x
Plain(line) ==
    IF ValueColon(line) = 0 THEN line
    ELSE SubSeq(line, 1, NameEnd(line) - 1) \o <<":">>
             \o SubSeq(line, ValueColon(line) + 1, Len(line))
PlainLines(lines) == [i \in 1..Len(lines) |-> Plain(lines[i])]

Starts(evs) == [k \in 1..Len(evs) |-> evs[k].start]

\* C11: naive-as-UTC. A DTSTART value YYYYMMDDTHHMMSS without Z gives the
\* instant of the same digits followed by Z, and property parameters never
\* change the result: the starts of the emitted events are the starts the
\* same lines give when every property is written without its parameters.
C11_NaiveAsUtc ==
    ppc = "done" =>
        /\ \A k \in 1..Len(events) :
              ShapeT(StartVal(k)) =>
                  events[k].start = parse_dt(StartVal(k) \o <<"Z">>).dt
        /\ Starts(events)
              = Starts(scan_from(PlainLines(unfolded), 1, ScanStart).events)

-----------------------------------------------------------------------------
(* Properties of the reconciler that read the feed documents *)

\* the logical lines of a feed document, and the positions among its emitted
\* events of those whose block holds no SUMMARY line
FeedLines == [doc \in FeedDocs |-> unfold(stripped_lines(FeedText(doc)))]
Untitled ==
    [doc \in FeedDocs |->
        {n \in 1..Len(Parsed[doc]) :
            BlockValue(FeedLines[doc], KthEnd(Emitting(FeedLines[doc]), n), SUMMARY)
                = None}]

\* C12: title fallback. When a sync call that no other request overlaps
\* returns, every stored event of a source it processed whose feed block
\* carries no SUMMARY has the display name of that source as its title.
C12_TitleFallback ==
    [][\A r \in Reqs :
          (Returns(r) /\ req[r].alone) =>
              LET q == req'[r] IN
              \A k \in 1..Len(q.sources) :
                  LET evs == EventsOf(event', Sid(q, k)) IN
                  \A n \in 1..Len(evs) :
                      n \in Untitled[q.fetched[k]] => evs[n].title = q.sources[k].name
      ]_vars

\* no two sources of the collection have both the same listing and the same url
NoTwoSame(coll) ==
    \A a, b \in 1..Len(coll) :
        a # b => ~(coll[a].listing_id = coll[b].listing_id /\ coll[a].url = coll[b].url)

\* C13: registrations. No two stored sources have both the same listing id
\* and the same feed url, and a registration answered from a stored source
\* has created none and returns the id of a stored source of its listing and
\* url.
C13_UniquePerListing ==
    /\ NoTwoSame(calendarsource)
    /\ \A r \in Reqs :
          (added[r] # Nothing /\ added[r].pc = "done") =>
              /\ ~added[r].created
              /\ \E k \in 1..Len(calendarsource) :
                    /\ added[r].response.id = str_id(calendarsource[k]._id)
                    /\ added[r].response.listing_id = calendarsource[k].listing_id
                    /\ added[r].response.url = calendarsource[k].url

-----------------------------------------------------------------------------
(* Further properties of the parser (specification ParseSpec) *)

\* C14: block isolation and last-write-wins. The emitted events are one per
\* closed block with a parseable DTSTART and DTEND, so an END:VEVENT with no
\* open block emits nothing; and every field of an emitted event is the value
\* of the last line with its key between the event's END:VEVENT and the
\* nearest BEGIN:VEVENT above it: no line outside a block, of an earlier
\* block, or above a repeated BEGIN:VEVENT contributes.
C14_BlockIsolation ==
    ppc = "done" =>
        /\ Len(events) = Cardinality(Emitting(unfolded))
        /\ \A k \in 1..Len(events) :
              LET j == KthEnd(Emitting(unfolded), k)
                  of(key) == BlockValue(unfolded, j, key)
              IN /\ events[k].uid = of(UID)
                 /\ events[k].title = py_or(of(SUMMARY), NoTitle)
                 /\ events[k].start = parse_dt(of(DTSTART)).dt
                 /\ events[k].end = parse_dt(of(DTEND)).dt
                 /\ events[k].location = of(LOCATION)
                 /\ events[k].description = of(DESCRIPTION)
                 /\ events[k].status = of(STATUS)

\* C14 witness: a block left open with a UID and a LOCATION, then a block
\* that writes SUMMARY twice and has no LOCATION, then an END:VEVENT with no
\* open block and a SUMMARY outside any block; one event, titled by the
\* second SUMMARY of its own block.
C14_Witness ==
    /\ ppc = "done"
    /\ text = FragUnclosed \o FragGood \o FragStray
    /\ Len(events) = 1
    /\ events[1].uid = <<"a", "1">>
    /\ events[1].title = <<"S", "t", "a", "y">>
    /\ events[1].location = None

-----------------------------------------------------------------------------
(* Further properties of the reconciler (specification Spec) *)

\* the id strings of the sources in the scope of a request
ScopeIds(q) == {Sid(q, k) : k \in 1..Len(q.sources)}

\* the events of a collection that belong to no source of the scope
Outside(coll, q) == SelectSeq(coll, LAMBDA e : e.source_id \notin ScopeIds(q))

\* C15: source scoping. No step of a sync call changes the stored events of
\* a source outside its scope, in number or in content, and every event the
\* call inserts is stored carrying the id of the source it was parsed from,
\* the listing id of that source and the url of that source as raw_url.
C15_SourceScoping ==
    [][\A r \in Reqs :
          LET q == req[r]
              p == req'[r]
          IN (Steps(r) /\ q.pc # "idle") =>
              /\ Outside(event', q) = Outside(event, q)
              /\ q.pc = "insert" =>
                    /\ Len(p.inserted) = q.i
                    /\ \A n \in 1..Len(p.inserted[q.i]) :
                          LET e == p.inserted[q.i][n] IN
                          /\ e.source_id = Sid(q, q.i)
                          /\ e.listing_id = q.sources[q.i].listing_id
                          /\ e.raw_url = q.sources[q.i].url
                          /\ \E m \in 1..Len(event') : event'[m] = e
      ]_vars

\* C15 witness: one of two sources is synced by its id and gets events while
\* the other source keeps the events it held.
C15_Witness ==
    \E r \in Reqs :
        LET q == req[r] IN
        /\ Returned(q)
        /\ truthy(q.source_id)
        /\ Len(calendarsource) = 2
        /\ Outside(q.pre, q) # <<>>
        /\ Outside(event, q) = Outside(q.pre, q)
        /\ q.inserted[1] # <<>>

\* C16: the non-atomic window. At every point of a sync call, the stop between
\* the purge and the insert of a source included, the events stored for each
\* source of the call are the complete set from before the call, or none, or
\* the complete set parsed from a document of its feed, never a mixture and
\* never a set twice; and when no other request overlaps the call, they are
\* none between the purge and the insert of the source.
C16_NonAtomicWindow ==
    \A r \in Reqs :
        LET q == req[r] IN
        q.pc \in {"purge", "fetch", "insert"} =>
            /\ \A k \in 1..Len(q.sources) :
                  LET now == EventsOf(event, Sid(q, k)) IN
                  \/ now = EventsOf(q.pre, Sid(q, k))
                  \/ now = <<>>
                  \/ \E doc \in FeedDocs : now = build_batch(q.sources[k], Parsed[doc])
            /\ (q.alone /\ q.pc \in {"fetch", "insert"}) =>
                  EventsOf(event, Sid(q, q.i)) = <<>>

\* the position of a source among the sources of a request
Pos(q, sid) == CHOOSE k \in 1..Len(q.sources) : Sid(q, k) = sid

\* C17: no duplicates under overlapping syncs. When two sync calls have both
\* returned their summaries and the feed of a source both covered served both
\* the same document, the source holds each event parsed from it exactly
\* once: its stored events are the batch of the parsed document.
C17_NoDuplicatesOverlapping ==
    LET a == req["r1"]
        b == req["r2"]
    IN (Returned(a) /\ Returned(b)) =>
        \A k \in 1..Len(calendarsource) :
            LET s == calendarsource[k]
                sid == str_id(s._id)
            IN (/\ sid \in ScopeIds(a) \cap ScopeIds(b)
                /\ a.fetched[Pos(a, sid)] = b.fetched[Pos(b, sid)])
               => EventsOf(event, sid) = build_batch(s, Parsed[a.fetched[Pos(a, sid)]])
====
